---------------------------- MODULE Spec2Model ----------------------------
(***************************************************************************)
(* pngme: the chunk codec (ChunkType, Chunk) and the Png container.        *)
(*                                                                         *)
(* Bytes are naturals in 0..255.  A u32 is kept as two 16-bit halves       *)
(* [hi, lo] (value hi * 65536 + lo) so that every u32, including the ones  *)
(* above 2^31 - 1, is represented exactly.  A Rust Result is a record      *)
(* [ok |-> TRUE, val |-> v] or [ok |-> FALSE, err |-> e].                  *)
(***************************************************************************)
EXTENDS Integers, Sequences, FiniteSets, TLC

(***************************************************************************)
(* Bounds of the model.                                                    *)
(***************************************************************************)
\* longest chunk data built by Chunk::new
MaxData == 2
\* longest string handed to ChunkType::from_str, in characters
MaxStrLen == 5
\* most chunks a Png holds
MaxChunks == 3
\* most bytes appended after a serialized chunk
MaxTrail == 2
\* most chunks of a file that pngme encode is run on
MaxFileChunks == 1

(***************************************************************************)
(* Results.                                                                *)
(***************************************************************************)
Ok(v) == [ok |-> TRUE, val |-> v]
Err(e) == [ok |-> FALSE, err |-> e]
\* "no call made yet"
NoResult == [tag |-> "none"]

(***************************************************************************)
(* Bit operations on naturals and u32 arithmetic.                          *)
(***************************************************************************)
RECURSIVE Xor(_, _)
Xor(a, b) ==
    IF a = 0 THEN b
    ELSE IF b = 0 THEN a
    ELSE ((a + b) % 2) + 2 * Xor(a \div 2, b \div 2)

RECURSIVE And(_, _)
And(a, b) ==
    IF a = 0 \/ b = 0 THEN 0
    ELSE ((a % 2) * (b % 2)) + 2 * And(a \div 2, b \div 2)

RECURSIVE Pow2(_)
Pow2(n) == IF n = 0 THEN 1 ELSE 2 * Pow2(n - 1)

U32(hi, lo) == [hi |-> hi, lo |-> lo]

\* usize -> u32 (`as u32`), for sizes below 2^31
U32_from_usize(n) == U32((n \div 65536) % 65536, n % 65536)

\* u32 -> usize; the callers only convert values <= 2^31 - 1
U32_to_usize(v) == v.hi * 65536 + v.lo

U32_gt(a, b) == a.hi > b.hi \/ (a.hi = b.hi /\ a.lo > b.lo)

U32_xor(a, b) == U32(Xor(a.hi, b.hi), Xor(a.lo, b.lo))

U32_not(a) == U32(65535 - a.hi, 65535 - a.lo)

U32_shr1(a) == U32(a.hi \div 2, (a.lo \div 2) + (a.hi % 2) * 32768)

U32_shr8(a) == U32(a.hi \div 256, (a.lo \div 256) + (a.hi % 256) * 256)

\* u32::to_be_bytes
to_be_bytes(v) == << v.hi \div 256, v.hi % 256, v.lo \div 256, v.lo % 256 >>

\* u32::from_be_bytes
from_be_bytes(b) == U32(b[1] * 256 + b[2], b[3] * 256 + b[4])

(***************************************************************************)
(* crc::crc32::checksum_ieee: the table-driven, reflected CRC-32 with the  *)
(* polynomial 0xEDB88320, initial value and final xor 0xFFFFFFFF.          *)
(***************************************************************************)
IEEE == U32(60856, 33568)

RECURSIVE crc_table_entry(_, _)
crc_table_entry(value, rounds) ==
    IF rounds = 0 THEN value
    ELSE crc_table_entry(
             IF value.lo % 2 = 1 THEN U32_xor(U32_shr1(value), IEEE)
                                 ELSE U32_shr1(value),
             rounds - 1)

IEEE_TABLE == [i \in 0..255 |-> crc_table_entry(U32(0, i), 8)]

\* one round of `update`: value = table[(value as u8) ^ byte] ^ (value >> 8)
crc_round(value, byte) ==
    U32_xor(IEEE_TABLE[Xor(value.lo % 256, byte)], U32_shr8(value))

\* the loop of `update` from byte i on.  The test i > Len(bytes) alone is the
\* loop's; the second disjunct is never true and only makes TLC compute
\* `value` before the next round instead of nesting 46 deferred rounds.
RECURSIVE crc_update(_, _, _)
crc_update(value, bytes, i) ==
    IF i > Len(bytes) \/ value.lo < 0 THEN value
    ELSE crc_update(crc_round(value, bytes[i]), bytes, i + 1)

checksum_ieee(bytes) == U32_not(crc_update(U32_not(U32(0, 0)), bytes, 1))

(***************************************************************************)
(* Strings.  A &str is a sequence of characters (code points); as_bytes    *)
(* and len work on its UTF-8 encoding.                                     *)
(***************************************************************************)
utf8_char(c) ==
    IF c < 128 THEN << c >>
    ELSE IF c < 2048 THEN << 192 + (c \div 64), 128 + (c % 64) >>
    ELSE << 224 + (c \div 4096), 128 + ((c \div 64) % 64), 128 + (c % 64) >>

RECURSIVE str_as_bytes(_)
str_as_bytes(s) ==
    IF s = << >> THEN << >> ELSE utf8_char(Head(s)) \o str_as_bytes(Tail(s))

str_len(s) == Len(str_as_bytes(s))

(***************************************************************************)
(* chunk_type.rs: ChunkType                                                *)
(***************************************************************************)
\* is_valid_byte with the upper ends of both ranges excluded
is_valid_byte_exclusive(b) == (65 <= b /\ b < 90) \/ (97 <= b /\ b < 122)

is_valid_byte(b) == (65 <= b /\ b <= 90) \/ (97 <= b /\ b <= 122)

ChunkType_bytes(t) == t.bytes

\* bit_is_zero with the bits counted from 1
bit_is_zero_from_one(bit, n) == And(bit, Pow2(n - 1)) = 0

\* ChunkType::bit_is_zero: mask = 1 << n; bit & mask == 0
bit_is_zero(bit, n) == And(bit, Pow2(n)) = 0

is_critical(t) == bit_is_zero(t.bytes[1], 5)

is_public(t) == bit_is_zero(t.bytes[2], 5)

is_reserved_bit_valid(t) == bit_is_zero(t.bytes[3], 5)

is_safe_to_copy(t) == ~bit_is_zero(t.bytes[4], 5)

is_valid(t) == is_reserved_bit_valid(t)

\* equality that ignores the case of the letters (bit 5 of each byte)
ChunkType_eq_ignore_case(a, b) ==
    \A i \in 1..4 : a.bytes[i] % 32 = b.bytes[i] % 32

\* PartialEq derived on the struct: equality of the byte arrays
ChunkType_eq(a, b) == a.bytes = b.bytes

\* impl Display: each byte written as the char of the same code point
ChunkType_to_string(t) == [i \in 1..4 |-> t.bytes[i]]

BadByte(b) == [kind |-> "BadByte", byte |-> b]
BadLength(n) == [kind |-> "BadLength", len |-> n]

\* the `for byte in bytes.iter()` loop of try_from, from index i on
RECURSIVE try_from_loop(_, _)
try_from_loop(bytes, i) ==
    IF i > Len(bytes) THEN Ok([bytes |-> bytes])
    ELSE IF ~is_valid_byte(bytes[i]) THEN Err(BadByte(bytes[i]))
    ELSE try_from_loop(bytes, i + 1)

\* impl TryFrom<[u8; 4]> for ChunkType
ChunkType_try_from(bytes) == try_from_loop(bytes, 1)

\* the enumerate loop of from_str: vec is the array filled so far
RECURSIVE from_str_loop(_, _, _)
from_str_loop(sbytes, vec, index) ==
    IF index > Len(sbytes) THEN Ok([bytes |-> vec])
    ELSE IF is_valid_byte(sbytes[index])
         THEN from_str_loop(sbytes, [vec EXCEPT ![index] = sbytes[index]], index + 1)
         ELSE Err(BadByte(sbytes[index]))

\* from_str that measures the string in characters, not in bytes
ChunkType_from_str_chars(s) ==
    IF Len(s) # 4 THEN Err(BadLength(Len(s)))
    ELSE from_str_loop(str_as_bytes(s), << 0, 0, 0, 0 >>, 1)

\* impl FromStr for ChunkType
ChunkType_from_str(s) ==
    IF str_len(s) # 4 THEN Err(BadLength(str_len(s)))
    ELSE from_str_loop(str_as_bytes(s), << 0, 0, 0, 0 >>, 1)

(***************************************************************************)
(* chunk.rs: Chunk                                                         *)
(***************************************************************************)
\* the limit one too low, as `length >= MAXIMUM_LENGTH` would make it
MAXIMUM_LENGTH_low == [hi |-> 32767, lo |-> 65534]

MAXIMUM_LENGTH == U32(32767, 65535)

\* Chunk::new with the checksum taken over the data alone
Chunk_new_data_crc(chunk_type, chunk_data) ==
    [ length     |-> [hi |-> 0, lo |-> Len(chunk_data)],
      chunk_type |-> chunk_type,
      chunk_data |-> chunk_data,
      crc        |-> checksum_ieee(chunk_data) ]

\* Chunk::new
Chunk_new(chunk_type, chunk_data) ==
    [ length     |-> U32_from_usize(Len(chunk_data)),
      chunk_type |-> chunk_type,
      chunk_data |-> chunk_data,
      crc        |-> checksum_ieee(ChunkType_bytes(chunk_type) \o chunk_data) ]

\* as_bytes with the crc written least-significant byte first
Chunk_as_bytes_le_crc(c) ==
    to_be_bytes(c.length) \o c.chunk_type.bytes \o c.chunk_data
        \o << c.crc.lo % 256, c.crc.lo \div 256, c.crc.hi % 256, c.crc.hi \div 256 >>

\* Chunk::as_bytes
Chunk_as_bytes(c) ==
    to_be_bytes(c.length) \o ChunkType_bytes(c.chunk_type)
        \o c.chunk_data \o to_be_bytes(c.crc)

UnexpectedEof == [kind |-> "UnexpectedEof"]
LengthTooLong(length) == [kind |-> "LengthTooLong", length |-> length]
WrongDataLength(got, length) ==
    [kind |-> "WrongDataLength", got |-> got, expected |-> length]
BadCrc(provided, true) == [kind |-> "BadCRC", received |-> provided, expected |-> true]

\* Read::read_exact on a reader over `bytes` that has consumed `pos` bytes
read_exact(bytes, pos, n) ==
    IF Len(bytes) - pos >= n
    THEN Ok([i \in 1..n |-> bytes[pos + i]])
    ELSE Err(UnexpectedEof)

\* try_from that reads the crc field and never compares it
try_from_crc_unchecked(bytes, length, chunk_type, chunk_data) ==
    LET r == read_exact(bytes, 8 + Len(chunk_data), 4) IN
    IF ~r.ok THEN r
    ELSE Ok([ length     |-> length,
              chunk_type |-> chunk_type,
              chunk_data |-> chunk_data,
              crc        |-> from_be_bytes(r.val) ])

\* try_from that takes the crc from the last four bytes of the buffer
try_from_crc_from_end(bytes, length, chunk_type, chunk_data) ==
    LET r == read_exact(bytes, Len(bytes) - 4, 4) IN
    IF ~r.ok THEN r
    ELSE LET provided_crc == from_be_bytes(r.val)
             true_crc == checksum_ieee(chunk_type.bytes \o chunk_data)
         IN  IF provided_crc # true_crc
             THEN Err(BadCrc(provided_crc, true_crc))
             ELSE Ok([ length     |-> length,
                       chunk_type |-> chunk_type,
                       chunk_data |-> chunk_data,
                       crc        |-> true_crc ])

\* try_from after the data was read: the data-length guard, the crc field
\* and the crc comparison
try_from_crc(bytes, length, chunk_type, chunk_data) ==
    IF Len(chunk_data) # U32_to_usize(length)
    THEN Err(WrongDataLength(Len(chunk_data), length))
    ELSE LET r == read_exact(bytes, 8 + Len(chunk_data), 4) IN
         IF ~r.ok THEN r
         ELSE LET provided_crc == from_be_bytes(r.val)
                  true_crc == checksum_ieee(ChunkType_bytes(chunk_type) \o chunk_data)
              IN  IF provided_crc # true_crc
                  THEN Err(BadCrc(provided_crc, true_crc))
                  ELSE Ok([ length     |-> length,
                            chunk_type |-> chunk_type,
                            chunk_data |-> chunk_data,
                            crc        |-> true_crc ])

\* try_from after the length check: the type field and the data
try_from_type(bytes, length) ==
    LET r == read_exact(bytes, 4, 4) IN
    IF ~r.ok THEN r
    ELSE LET t == ChunkType_try_from(r.val) IN
         IF ~t.ok THEN t
         ELSE LET d == read_exact(bytes, 8, U32_to_usize(length)) IN
              IF ~d.ok THEN d
              ELSE try_from_crc(bytes, length, t.val, d.val)

\* impl TryFrom<&[u8]> for Chunk
Chunk_try_from(bytes) ==
    LET r == read_exact(bytes, 0, 4) IN
    IF ~r.ok THEN r
    ELSE LET length == from_be_bytes(r.val) IN
         IF U32_gt(length, MAXIMUM_LENGTH)
         THEN Err(LengthTooLong(length))
         ELSE try_from_type(bytes, length)

(***************************************************************************)
(* png.rs: Png (the file is not part of the sources at hand; the           *)
(* definitions below follow the documented contract of the container).     *)
(***************************************************************************)
STANDARD_HEADER == << 137, 80, 78, 71, 13, 10, 26, 10 >>

BadSignature == [kind |-> "BadSignature"]
ChunkTypeNotFound(t) == [kind |-> "ChunkTypeNotFound", chunk_type |-> t]

\* Option
Some(v) == [some |-> TRUE, val |-> v]
None == [some |-> FALSE]

\* Png::from_chunks
Png_from_chunks(chunks) == [chunks |-> chunks]

\* Png::chunks
Png_chunks(png) == png.chunks

\* Png::append_chunk
Png_append_chunk(png, c) == [chunks |-> Append(png.chunks, c)]

\* the stored positions holding a chunk of type t
positions_of_type(png, t) ==
    { i \in 1..Len(png.chunks) : ChunkType_eq(png.chunks[i].chunk_type, t) }

\* the first of them
first_position(png, t) ==
    CHOOSE i \in positions_of_type(png, t) :
        \A j \in positions_of_type(png, t) : i <= j

\* Png::chunk_by_type
Png_chunk_by_type(png, t) ==
    IF positions_of_type(png, t) = {} THEN None
    ELSE Some(png.chunks[first_position(png, t)])

\* Png::remove_chunk: the Png afterwards and the value returned
Png_remove_chunk(png, t) ==
    IF positions_of_type(png, t) = {}
    THEN [png |-> png, result |-> Err(ChunkTypeNotFound(t))]
    ELSE LET i == first_position(png, t) IN
         [ png    |-> [chunks |-> SubSeq(png.chunks, 1, i - 1)
                                      \o SubSeq(png.chunks, i + 1, Len(png.chunks))],
           result |-> Ok(png.chunks[i]) ]

RECURSIVE concat_chunks(_)
concat_chunks(chunks) ==
    IF chunks = << >> THEN << >>
    ELSE Chunk_as_bytes(Head(chunks)) \o concat_chunks(Tail(chunks))

\* Png::as_bytes
Png_as_bytes(png) == STANDARD_HEADER \o concat_chunks(png.chunks)

\* the chunk loop of Png::try_from: `chunks` decoded so far, `rest` left
RECURSIVE decode_chunks(_, _)
decode_chunks(chunks, rest) ==
    IF rest = << >> THEN Ok([chunks |-> chunks])
    ELSE LET r == Chunk_try_from(rest) IN
         IF ~r.ok THEN r
         ELSE decode_chunks(Append(chunks, r.val),
                            SubSeq(rest, 13 + Len(r.val.chunk_data), Len(rest)))

\* impl TryFrom<&[u8]> for Png
Png_try_from(bytes) ==
    IF Len(bytes) < 8 \/ SubSeq(bytes, 1, 8) # STANDARD_HEADER
    THEN Err(BadSignature)
    ELSE decode_chunks(<< >>, SubSeq(bytes, 9, Len(bytes)))

(***************************************************************************)
(* commands.rs: run.  The file system is a function from paths to files;   *)
(* a path is a directory and a name, and only the directories of           *)
(* ExistingDirs exist.  What run prints is the sequence of its println!    *)
(* calls, each with its format string and its argument.                    *)
(***************************************************************************)
ExistingDirs == { "." }
Path(dir, name) == [dir |-> dir, name |-> name]
Absent == [exists |-> FALSE]
File(bytes) == [exists |-> TRUE, bytes |-> bytes]
IoNotFound(path) == [kind |-> "io::ErrorKind::NotFound", path |-> path]

\* the paths of the command line: two files of the working directory and a
\* file of a directory that does not exist
CliPaths == { Path(".", "a.png"), Path(".", "b.png"), Path("nodir", "c.png") }

\* std::fs::read(path)
fs_read(files, path) ==
    IF files[path].exists THEN Ok(files[path].bytes) ELSE Err(IoNotFound(path))

\* std::fs::write(path, bytes): the files afterwards and the value returned
fs_write(files, path, bytes) ==
    IF path.dir \in ExistingDirs
    THEN [files |-> [files EXCEPT ![path] = File(bytes)], result |-> Ok(<< >>)]
    ELSE [files |-> files, result |-> Err(IoNotFound(path))]

\* Option::unwrap_or
unwrap_or(opt, default) == IF opt.some THEN opt.val ELSE default

println(fmt, arg) == [fmt |-> fmt, arg |-> arg]

\* what run leaves behind: the files, the value returned, the lines printed
Ran(files, ret, stdout) == [files |-> files, ret |-> ret, stdout |-> stdout]

\* an Encode arm that writes the bytes read to the output path before parsing
run_encode_write_first(files, sub) ==
    LET input_bytes == fs_read(files, sub.input_file_path) IN
    IF ~input_bytes.ok THEN Ran(files, input_bytes, << >>)
    ELSE
    LET output == unwrap_or(sub.output_file_path, sub.input_file_path)
        early == fs_write(files, output, input_bytes.val)
        parsed_png == Png_try_from(input_bytes.val)
    IN
    IF ~parsed_png.ok THEN Ran(early.files, parsed_png, << >>)
    ELSE
    LET c == Chunk_new(sub.chunk_type, str_as_bytes(sub.message))
        appended == Png_append_chunk(parsed_png.val, c)
        written == fs_write(files, output, Png_as_bytes(appended))
    IN
    IF ~written.result.ok THEN Ran(written.files, written.result, << >>)
    ELSE Ran(written.files, Ok(<< >>), << >>)

\* the Subcommand::Encode arm of run
run_encode(files, sub) ==
    LET input_bytes == fs_read(files, sub.input_file_path) IN
    IF ~input_bytes.ok THEN Ran(files, input_bytes, << >>)
    ELSE
    LET output == unwrap_or(sub.output_file_path, sub.input_file_path)
        parsed_png == Png_try_from(input_bytes.val)
    IN
    IF ~parsed_png.ok THEN Ran(files, parsed_png, << >>)
    ELSE
    LET c == Chunk_new(sub.chunk_type, str_as_bytes(sub.message))
        appended == Png_append_chunk(parsed_png.val, c)
        written == fs_write(files, output, Png_as_bytes(appended))
    IN
    IF ~written.result.ok THEN Ran(written.files, written.result, << >>)
    ELSE Ran(written.files, Ok(<< >>), << >>)

\* the Subcommand::Decode arm of run
run_decode(files, sub) ==
    LET input_bytes == fs_read(files, sub.file_path) IN
    IF ~input_bytes.ok THEN Ran(files, input_bytes, << >>)
    ELSE
    LET parsed_png == Png_try_from(input_bytes.val) IN
    IF ~parsed_png.ok THEN Ran(files, parsed_png, << >>)
    ELSE
    LET found == Png_chunk_by_type(parsed_png.val, sub.chunk_type) IN
    IF found.some
    THEN Ran(files, Ok(<< >>), << println("{}", found.val) >>)
    ELSE Ran(files, Ok(<< >>), << >>)

\* the Subcommand::Remove arm of run
run_remove(files, sub) ==
    LET input_bytes == fs_read(files, sub.file_path) IN
    IF ~input_bytes.ok THEN Ran(files, input_bytes, << >>)
    ELSE
    LET parsed_png == Png_try_from(input_bytes.val) IN
    IF ~parsed_png.ok THEN Ran(files, parsed_png, << >>)
    ELSE
    LET removed == Png_remove_chunk(parsed_png.val, sub.chunk_type) IN
    IF removed.result.ok
    THEN LET written == fs_write(files, sub.file_path, Png_as_bytes(removed.png)) IN
         IF ~written.result.ok THEN Ran(written.files, written.result, << >>)
         ELSE Ran(written.files, Ok(<< >>),
                  << println("Removed chunk: {}", removed.result.val) >>)
    ELSE Ran(files, Ok(<< >>), << println("Error: {}", removed.result.err) >>)

\* the Subcommand::Print arm of run
run_print(files, sub) ==
    LET input_bytes == fs_read(files, sub.file_path) IN
    IF ~input_bytes.ok THEN Ran(files, input_bytes, << >>)
    ELSE
    LET parsed_png == Png_try_from(input_bytes.val) IN
    IF ~parsed_png.ok THEN Ran(files, parsed_png, << >>)
    ELSE Ran(files, Ok(<< >>),
             [i \in 1..Len(Png_chunks(parsed_png.val)) |->
                  println("{}", Png_chunks(parsed_png.val)[i])])

\* pub fn run(subcommand)
run(files, sub) ==
    CASE sub.cmd = "Encode" -> run_encode(files, sub)
      [] sub.cmd = "Decode" -> run_decode(files, sub)
      [] sub.cmd = "Remove" -> run_remove(files, sub)
      [] sub.cmd = "Print"  -> run_print(files, sub)

(***************************************************************************)
(* State.                                                                  *)
(*                                                                         *)
(* ChunkType callers: the last array handed to ChunkType::try_from and its *)
(* result, the last string handed to ChunkType::from_str and its result,   *)
(* and the flags read last from a ChunkType built.                         *)
(* Chunk callers: the chunk built by Chunk::new, the byte buffer at hand   *)
(* with the way it was produced, and the result of Chunk::try_from on it.  *)
(* Png callers: the Png held, the last call made on it (its arguments, its *)
(* result and the Png before it), the file bytes at hand with the way they *)
(* were produced, and the result of Png::try_from on them.                 *)
(* The command line: the files on disk and the last run of a subcommand    *)
(* (the subcommand, the files before it, the value returned, the lines     *)
(* printed).                                                               *)
(***************************************************************************)
VARIABLES type_bytes_in, type_from_bytes, type_str_in, type_from_str,
          type_flags,
          chunk, buf, buf_src, decoded,
          png, call, file, file_src, parsed,
          fs, last_run

type_vars == << type_bytes_in, type_from_bytes, type_str_in, type_from_str,
               type_flags >>
chunk_vars == << chunk, buf, buf_src, decoded >>
png_vars == << png, call, file, file_src, parsed >>
cli_vars == << fs, last_run >>
vars == << type_vars, chunk_vars, png_vars, cli_vars >>

TypeIdle ==
    /\ type_bytes_in = << >>
    /\ type_from_bytes = NoResult
    /\ type_str_in = << >>
    /\ type_from_str = NoResult
    /\ type_flags = NoResult

ChunkIdle ==
    /\ chunk = NoResult
    /\ buf = << >>
    /\ buf_src = [kind |-> "none"]
    /\ decoded = NoResult

PngIdle ==
    /\ png = Png_from_chunks(<< >>)
    /\ call = [op |-> "none"]
    /\ file = << >>
    /\ file_src = [kind |-> "none"]
    /\ parsed = NoResult

CliIdle ==
    /\ fs = [p \in CliPaths |-> Absent]
    /\ last_run = NoResult

(***************************************************************************)
(* Inputs.                                                                 *)
(***************************************************************************)
\* bytes tried in a [u8; 4]: the ends of both letter ranges and their
\* neighbours
TypeByteInputs == {64, 65, 90, 91, 96, 97, 122, 123}
TypeArrayInputs == [1..4 -> TypeByteInputs]

\* characters of the strings tried: 'A', 'z', '1' and the two-byte U+00E9
CharInputs == {65, 122, 49, 233}
StrInputs == UNION { [1..n -> CharInputs] : n \in 0..MaxStrLen }

\* the strings of the tests of chunk_type.rs:
\* "RuSt", "ruSt", "RUSt", "Rust", "RuST", "Ru1t"
TestStrInputs == { << 82, 117, 83, 116 >>, << 114, 117, 83, 116 >>,
                   << 82, 85, 83, 116 >>, << 82, 117, 115, 116 >>,
                   << 82, 117, 83, 84 >>, << 82, 117, 49, 116 >> }

\* chunk types of the chunks built: "RuSt", "ruSt", "AZaz"
ChunkTypeInputs == { << 82, 117, 83, 116 >>, << 114, 117, 83, 116 >>,
                     << 65, 90, 97, 122 >> }
DataByteInputs == {0, 104, 255}
DataInputs == UNION { [1..n -> DataByteInputs] : n \in 0..MaxData }

\* length fields written over a serialized chunk's own:
\* 0, 1, 2^31 - 2, 2^31 - 1, 2^31, 2^31 + 1, 2^32 - 1
LengthFieldInputs == { << 0, 0, 0, 0 >>, << 0, 0, 0, 1 >>,
                       << 127, 255, 255, 254 >>, << 127, 255, 255, 255 >>,
                       << 128, 0, 0, 0 >>, << 128, 0, 0, 1 >>,
                       << 255, 255, 255, 255 >> }

TrailByteInputs == {0, 255}
TrailInputs == UNION { [1..n -> TrailByteInputs] : n \in 1..MaxTrail }

\* chunk.rs tests: the 42 message bytes of testing_chunk
testing_message ==
    << 84, 104, 105, 115, 32, 105, 115, 32, 119, 104, 101, 114, 101, 32,
       121, 111, 117, 114, 32, 115, 101, 99, 114, 101, 116, 32, 109, 101,
       115, 115, 97, 103, 101, 32, 119, 105, 108, 108, 32, 98, 101, 33 >>

\* the buffer of testing_chunk / test_valid_chunk_from_bytes: length 42,
\* "RuSt", the message, crc 2882656334 = 0xABD1D84E
testing_chunk_bytes ==
    << 0, 0, 0, 42 >> \o << 82, 117, 83, 116 >> \o testing_message
        \o << 171, 209, 216, 78 >>

\* the buffer of test_invalid_chunk_from_bytes: crc 2882656333 = 0xABD1D84D
invalid_chunk_bytes ==
    << 0, 0, 0, 42 >> \o << 82, 117, 83, 116 >> \o testing_message
        \o << 171, 209, 216, 77 >>

\* chunks appended to a Png: types "RuSt" and "ruSt", empty or one-byte data;
\* "AZaz" is looked up and removed but never appended
PngTypeInputs == { << 82, 117, 83, 116 >>, << 114, 117, 83, 116 >> }
PngDataInputs == { << >>, << 104 >> }
PngLookupInputs == PngTypeInputs \cup { << 65, 90, 97, 122 >> }

\* the longest file a Png of the model serializes to
MaxFileLen == 8 + MaxChunks * 13

flip_bit(b, n) == IF (b \div Pow2(n)) % 2 = 1 THEN b - Pow2(n) ELSE b + Pow2(n)

(***************************************************************************)
(* ChunkType callers.                                                      *)
(***************************************************************************)
\* ChunkType::try_from(bytes)
TypeTryFrom(bytes) ==
    /\ type_from_bytes = NoResult
    /\ type_from_str = NoResult
    /\ type_bytes_in' = bytes
    /\ type_from_bytes' = ChunkType_try_from(bytes)
    /\ UNCHANGED << type_str_in, type_from_str, type_flags, chunk_vars, png_vars, cli_vars >>

\* ChunkType::from_str(&t.to_string()) for the ChunkType t built last
TypeFromOwnString ==
    /\ type_from_bytes # NoResult
    /\ type_from_bytes.ok
    /\ type_from_str = NoResult
    /\ type_str_in' = ChunkType_to_string(type_from_bytes.val)
    /\ type_from_str' = ChunkType_from_str(ChunkType_to_string(type_from_bytes.val))
    /\ UNCHANGED << type_bytes_in, type_from_bytes, type_flags, chunk_vars, png_vars, cli_vars >>

\* ChunkType::from_str(s)
TypeFromStr(s) ==
    /\ type_from_bytes = NoResult
    /\ type_from_str = NoResult
    /\ type_str_in' = s
    /\ type_from_str' = ChunkType_from_str(s)
    /\ UNCHANGED << type_bytes_in, type_from_bytes, type_flags, chunk_vars, png_vars, cli_vars >>

\* the ChunkTypes built so far
BuiltTypes ==
    { r.val : r \in { x \in {type_from_bytes, type_from_str} :
                         x # NoResult /\ x.ok } }

\* the flag predicates of a ChunkType built
TypeFlags(t) ==
    /\ type_flags = NoResult
    /\ t \in BuiltTypes
    /\ type_flags' = [ of                    |-> t,
                       is_critical           |-> is_critical(t),
                       is_public             |-> is_public(t),
                       is_reserved_bit_valid |-> is_reserved_bit_valid(t),
                       is_safe_to_copy       |-> is_safe_to_copy(t),
                       is_valid              |-> is_valid(t) ]
    /\ UNCHANGED << type_bytes_in, type_from_bytes, type_str_in, type_from_str,
                    chunk_vars, png_vars, cli_vars >>

TypeInit == TypeIdle /\ ChunkIdle /\ PngIdle /\ CliIdle

TypeNext ==
    \/ \E bytes \in TypeArrayInputs : TypeTryFrom(bytes)
    \/ TypeFromOwnString
    \/ \E s \in StrInputs : TypeFromStr(s)
    \/ \E s \in TestStrInputs : TypeFromStr(s)
    \/ \E t \in BuiltTypes : TypeFlags(t)

SpecType == TypeInit /\ [][TypeNext]_vars

(***************************************************************************)
(* Chunk callers.                                                          *)
(***************************************************************************)
\* Chunk::new(ChunkType::try_from(type_bytes)?, data)
NewChunk(type_bytes, data) ==
    /\ chunk = NoResult
    /\ buf_src.kind = "none"
    /\ ChunkType_try_from(type_bytes).ok
    /\ chunk' = Chunk_new(ChunkType_try_from(type_bytes).val, data)
    /\ UNCHANGED << buf, buf_src, decoded, type_vars, png_vars, cli_vars >>

\* chunk.as_bytes()
AsBytes ==
    /\ chunk # NoResult
    /\ buf_src.kind = "none"
    /\ buf' = Chunk_as_bytes(chunk)
    /\ buf_src' = [kind |-> "as_bytes"]
    /\ UNCHANGED << chunk, decoded, type_vars, png_vars, cli_vars >>

\* the buffers the tests of chunk.rs build by hand
LoadTestBuffer(bytes) ==
    /\ chunk = NoResult
    /\ buf_src.kind = "none"
    /\ buf' = bytes
    /\ buf_src' = [kind |-> "test"]
    /\ UNCHANGED << chunk, decoded, type_vars, png_vars, cli_vars >>

\* one bit of the serialized chunk is flipped
FlipBit(i, n) ==
    /\ buf_src.kind = "as_bytes"
    /\ decoded = NoResult
    /\ i \in 1..Len(buf)
    /\ buf' = [buf EXCEPT ![i] = flip_bit(buf[i], n)]
    /\ buf_src' = [kind |-> "flip", index |-> i, bit |-> n]
    /\ UNCHANGED << chunk, decoded, type_vars, png_vars, cli_vars >>

\* the length field of the serialized chunk is overwritten
SetLengthField(field) ==
    /\ buf_src.kind = "as_bytes"
    /\ decoded = NoResult
    /\ buf' = field \o SubSeq(buf, 5, Len(buf))
    /\ buf_src' = [kind |-> "length", field |-> field]
    /\ UNCHANGED << chunk, decoded, type_vars, png_vars, cli_vars >>

\* only the first n bytes of the serialized chunk are kept
Truncate(n) ==
    /\ buf_src.kind = "as_bytes"
    /\ decoded = NoResult
    /\ n \in 0..(Len(buf) - 1)
    /\ buf' = SubSeq(buf, 1, n)
    /\ buf_src' = [kind |-> "truncate", len |-> n]
    /\ UNCHANGED << chunk, decoded, type_vars, png_vars, cli_vars >>

\* more bytes follow the serialized chunk
AppendTrail(trail) ==
    /\ buf_src.kind = "as_bytes"
    /\ decoded = NoResult
    /\ buf' = buf \o trail
    /\ buf_src' = [kind |-> "trail", trail |-> trail]
    /\ UNCHANGED << chunk, decoded, type_vars, png_vars, cli_vars >>

\* Chunk::try_from(buf)
TryFrom ==
    /\ buf_src.kind # "none"
    /\ decoded = NoResult
    /\ decoded' = Chunk_try_from(buf)
    /\ UNCHANGED << chunk, buf, buf_src, type_vars, png_vars, cli_vars >>

ChunkInit == TypeIdle /\ ChunkIdle /\ PngIdle /\ CliIdle

ChunkNext ==
    \/ \E type_bytes \in ChunkTypeInputs, data \in DataInputs :
           NewChunk(type_bytes, data)
    \/ AsBytes
    \/ \E bytes \in {testing_chunk_bytes, invalid_chunk_bytes} :
           LoadTestBuffer(bytes)
    \/ \E i \in 1..(12 + MaxData), n \in 0..7 : FlipBit(i, n)
    \/ \E field \in LengthFieldInputs : SetLengthField(field)
    \/ \E n \in 0..(11 + MaxData) : Truncate(n)
    \/ \E trail \in TrailInputs : AppendTrail(trail)
    \/ TryFrom

SpecChunk == ChunkInit /\ [][ChunkNext]_vars

CliInputPaths == { Path(".", "a.png"), Path(".", "b.png") }
CliOutputPaths == { None, Some(Path(".", "b.png")), Some(Path("nodir", "c.png")) }

\* the chunk types of the command line, parsed by ChunkType::from_str from
\* "RuSt" and "ruSt", and the message "\u{e9}" (two bytes in UTF-8)
CliTypeInputs ==
    { ChunkType_from_str(s).val : s \in { << 82, 117, 83, 116 >>,
                                          << 114, 117, 83, 116 >> } }
CliMessageInputs == { << 233 >> }

\* what a.png holds at the start: nothing, the bare signature, a signature
\* with one bit flipped, a signature cut short, a file with one chunk, that
\* file with the last crc byte changed, and that file cut short
CliOneChunkFile ==
    STANDARD_HEADER
        \o Chunk_as_bytes(Chunk_new(ChunkType_from_str(<< 114, 117, 83, 116 >>).val,
                                    << 104 >>))
CliFileInputs ==
    { Absent,
      File(STANDARD_HEADER),
      File(<< flip_bit(STANDARD_HEADER[1], 0) >> \o Tail(STANDARD_HEADER)),
      File(SubSeq(STANDARD_HEADER, 1, 7)),
      File(CliOneChunkFile),
      File(SubSeq(CliOneChunkFile, 1, Len(CliOneChunkFile) - 1)
               \o << flip_bit(CliOneChunkFile[Len(CliOneChunkFile)], 0) >>),
      File(SubSeq(CliOneChunkFile, 1, Len(CliOneChunkFile) - 1)) }

\* the number of chunks of the file at `path`, 0 when it is not a Png
chunks_on_disk(files, path) ==
    IF ~files[path].exists THEN 0
    ELSE LET p == Png_try_from(files[path].bytes) IN
         IF p.ok THEN Len(p.val.chunks) ELSE 0

(***************************************************************************)
(* Png callers.  Chunks are appended, removed and looked up before the Png *)
(* is serialized; the serialized file is then damaged or not, and parsed.  *)
(***************************************************************************)
\* png.append_chunk(Chunk::new(chunk_type, data))
AppendChunk(type_bytes, data) ==
    /\ file_src.kind = "none"
    /\ Len(png.chunks) < MaxChunks
    /\ ChunkType_try_from(type_bytes).ok
    /\ LET c == Chunk_new(ChunkType_try_from(type_bytes).val, data) IN
       /\ png' = Png_append_chunk(png, c)
       /\ call' = [op |-> "append_chunk", arg |-> c, before |-> png]
    /\ UNCHANGED << file, file_src, parsed, type_vars, chunk_vars, cli_vars >>

\* png.remove_chunk(chunk_type)
RemoveChunk(type_bytes) ==
    /\ file_src.kind = "none"
    /\ ChunkType_try_from(type_bytes).ok
    /\ LET t == ChunkType_try_from(type_bytes).val
           r == Png_remove_chunk(png, t)
       IN  /\ png' = r.png
           /\ call' = [op |-> "remove_chunk", arg |-> t, before |-> png,
                       result |-> r.result]
    /\ UNCHANGED << file, file_src, parsed, type_vars, chunk_vars, cli_vars >>

\* png.chunk_by_type(chunk_type); `follows` is the call made before it
ChunkByType(type_bytes) ==
    /\ file_src.kind = "none"
    /\ ChunkType_try_from(type_bytes).ok
    /\ LET t == ChunkType_try_from(type_bytes).val IN
       call' = [op |-> "chunk_by_type", arg |-> t, before |-> png,
                result |-> Png_chunk_by_type(png, t), follows |-> call.op]
    /\ UNCHANGED << png, file, file_src, parsed, type_vars, chunk_vars, cli_vars >>

\* png.as_bytes()
PngAsBytes ==
    /\ file_src.kind = "none"
    /\ file' = Png_as_bytes(png)
    /\ file_src' = [kind |-> "as_bytes"]
    /\ call' = [op |-> "as_bytes", before |-> png]
    /\ UNCHANGED << png, parsed, type_vars, chunk_vars, cli_vars >>

\* one bit of the file's signature is flipped
FlipSignatureBit(i, n) ==
    /\ file_src.kind = "as_bytes"
    /\ parsed = NoResult
    /\ file' = [file EXCEPT ![i] = flip_bit(file[i], n)]
    /\ file_src' = [kind |-> "flip_signature", index |-> i, bit |-> n]
    /\ UNCHANGED << png, call, parsed, type_vars, chunk_vars, cli_vars >>

\* one bit of a chunk record of the file is flipped
FlipChunkBit(i, n) ==
    /\ file_src.kind = "as_bytes"
    /\ parsed = NoResult
    /\ i \in 9..Len(file)
    /\ file' = [file EXCEPT ![i] = flip_bit(file[i], n)]
    /\ file_src' = [kind |-> "flip_chunk", index |-> i, bit |-> n]
    /\ UNCHANGED << png, call, parsed, type_vars, chunk_vars, cli_vars >>

\* only the first n bytes of the file are kept
TruncateFile(n) ==
    /\ file_src.kind = "as_bytes"
    /\ parsed = NoResult
    /\ n \in 0..(Len(file) - 1)
    /\ file' = SubSeq(file, 1, n)
    /\ file_src' = [kind |-> "truncate", len |-> n]
    /\ UNCHANGED << png, call, parsed, type_vars, chunk_vars, cli_vars >>

\* Png::try_from(file)
PngTryFrom ==
    /\ file_src.kind # "none"
    /\ parsed = NoResult
    /\ parsed' = Png_try_from(file)
    /\ UNCHANGED << png, call, file, file_src, type_vars, chunk_vars, cli_vars >>

PngInit == TypeIdle /\ ChunkIdle /\ PngIdle /\ CliIdle

PngNext ==
    \/ \E type_bytes \in PngTypeInputs, data \in PngDataInputs :
           AppendChunk(type_bytes, data)
    \/ \E type_bytes \in PngLookupInputs : RemoveChunk(type_bytes)
    \/ \E type_bytes \in PngLookupInputs : ChunkByType(type_bytes)
    \/ PngAsBytes
    \/ \E i \in 1..8, n \in 0..7 : FlipSignatureBit(i, n)
    \/ \E i \in 9..MaxFileLen, n \in {0, 7} : FlipChunkBit(i, n)
    \/ \E n \in 0..(MaxFileLen - 1) : TruncateFile(n)
    \/ PngTryFrom

SpecPng == PngInit /\ [][PngNext]_vars

(***************************************************************************)
(* The command line.  Subcommands run one after the other on the files.    *)
(***************************************************************************)
\* the record of a run `r` of `sub` on the files `before`
RunRecord(sub, before, r) ==
    [sub |-> sub, before |-> before, ret |-> r.ret, stdout |-> r.stdout]

\* pngme encode input chunk_type message [output]
RunEncode(input, chunk_type, message, output) ==
    LET sub == [cmd |-> "Encode", input_file_path |-> input,
                chunk_type |-> chunk_type, message |-> message,
                output_file_path |-> output]
        r == run(fs, sub)
    IN
    /\ chunks_on_disk(fs, input) < MaxFileChunks
    /\ fs' = r.files
    /\ last_run' = RunRecord(sub, fs, r)
    /\ UNCHANGED << type_vars, chunk_vars, png_vars >>

\* pngme decode file chunk_type
RunDecode(path, chunk_type) ==
    LET sub == [cmd |-> "Decode", file_path |-> path, chunk_type |-> chunk_type]
        r == run(fs, sub)
    IN
    /\ fs' = r.files
    /\ last_run' = RunRecord(sub, fs, r)
    /\ UNCHANGED << type_vars, chunk_vars, png_vars >>

\* pngme remove file chunk_type
RunRemove(path, chunk_type) ==
    LET sub == [cmd |-> "Remove", file_path |-> path, chunk_type |-> chunk_type]
        r == run(fs, sub)
    IN
    /\ fs' = r.files
    /\ last_run' = RunRecord(sub, fs, r)
    /\ UNCHANGED << type_vars, chunk_vars, png_vars >>

\* pngme print file
RunPrint(path) ==
    LET sub == [cmd |-> "Print", file_path |-> path]
        r == run(fs, sub)
    IN
    /\ fs' = r.files
    /\ last_run' = RunRecord(sub, fs, r)
    /\ UNCHANGED << type_vars, chunk_vars, png_vars >>

CliInit ==
    /\ TypeIdle /\ ChunkIdle /\ PngIdle
    /\ \E f \in CliFileInputs :
           fs = [p \in CliPaths |-> IF p = Path(".", "a.png") THEN f ELSE Absent]
    /\ last_run = NoResult

CliNext ==
    \/ \E input \in CliInputPaths, chunk_type \in CliTypeInputs,
          message \in CliMessageInputs, output \in CliOutputPaths :
           RunEncode(input, chunk_type, message, output)
    \/ \E path \in CliInputPaths, chunk_type \in CliTypeInputs :
           RunDecode(path, chunk_type)
    \/ \E path \in CliInputPaths, chunk_type \in CliTypeInputs :
           RunRemove(path, chunk_type)
    \/ \E path \in CliInputPaths : RunPrint(path)

SpecCli == CliInit /\ [][CliNext]_vars

(***************************************************************************)
(* Properties of the chunk codec (SpecChunk).                              *)
(***************************************************************************)
IsLetter(b) == b \in (65..90) \cup (97..122)

\* the value of a u32 below 2^31
U32Value(v) == v.hi * 65536 + v.lo

\* the fields of a buffer laid out as length | type | data | crc
TypeField(b) == SubSeq(b, 5, 8)
PayloadField(b) == SubSeq(b, 5, Len(b) - 4)
CrcField(b) == SubSeq(b, Len(b) - 3, Len(b))

\* C1: decoding the bytes as_bytes produces for a chunk built by Chunk::new
\* succeeds and yields the same length, type bytes, data bytes and crc.
C1_ChunkRoundTrip ==
    (buf_src.kind = "as_bytes" /\ decoded # NoResult) =>
        /\ decoded.ok
        /\ decoded.val.length = chunk.length
        /\ ChunkType_bytes(decoded.val.chunk_type) = ChunkType_bytes(chunk.chunk_type)
        /\ decoded.val.chunk_data = chunk.chunk_data
        /\ decoded.val.crc = chunk.crc

C1_Witness ==
    /\ buf_src.kind = "as_bytes"
    /\ decoded # NoResult
    /\ decoded.ok
    /\ Len(chunk.chunk_data) > 0

\* the decode of a tampered buffer failed with "Bad CRC", carrying the crc
\* field received and the checksum of the type and data bytes received
FailedBadCrc ==
    /\ ~decoded.ok
    /\ decoded.err.kind = "BadCRC"
    /\ decoded.err.received = from_be_bytes(CrcField(buf))
    /\ decoded.err.expected = checksum_ieee(PayloadField(buf))
    /\ decoded.err.received # decoded.err.expected

\* C2 as stated: after one bit of the crc, type or data bytes of a serialized
\* chunk is flipped, decode fails with the CRC-mismatch error.
C2_AnyFlipIsBadCrc ==
    (buf_src.kind = "flip" /\ buf_src.index > 4 /\ decoded # NoResult) =>
        FailedBadCrc

\* C2 amended: a flipped bit in the crc or data bytes, or in a type byte that
\* stays an ASCII letter, makes decode fail with the CRC-mismatch error
\* carrying the received and the expected value; a flipped bit that turns a
\* type byte into a non-letter makes decode fail with the bad-byte error
\* carrying that byte.
C2_TamperDetected ==
    (buf_src.kind = "flip" /\ buf_src.index > 4 /\ decoded # NoResult) =>
        IF buf_src.index <= 8 /\ ~IsLetter(buf[buf_src.index])
        THEN decoded = Err(BadByte(buf[buf_src.index]))
        ELSE FailedBadCrc

C2_Witness ==
    /\ buf_src.kind = "flip"
    /\ buf_src.index > Len(buf) - 4
    /\ decoded # NoResult
    /\ FailedBadCrc

\* C3: a buffer whose declared length is 2^31 or more (first byte >= 128) is
\* rejected with the length-too-long error and no other buffer is, so a
\* declared 2^31 - 1 passes the length check; a declared length up to
\* 2^31 - 1 followed by that many data bytes, a valid type and the matching
\* crc is accepted with that length.
C3_LengthBound ==
    (decoded # NoResult /\ Len(buf) >= 4) =>
        /\ (buf[1] >= 128) <=>
               (decoded = Err(LengthTooLong(from_be_bytes(SubSeq(buf, 1, 4)))))
        /\ (SubSeq(buf, 1, 4) = << 127, 255, 255, 255 >>) =>
               (~decoded.ok /\ decoded.err.kind # "LengthTooLong")
        /\ ( /\ buf[1] < 128
             /\ Len(buf) - 12 >= U32Value(from_be_bytes(SubSeq(buf, 1, 4)))
             /\ \A i \in 5..8 : IsLetter(buf[i])
             /\ LET n == U32Value(from_be_bytes(SubSeq(buf, 1, 4))) IN
                from_be_bytes(SubSeq(buf, 9 + n, 12 + n))
                    = checksum_ieee(SubSeq(buf, 5, 8 + n)) )
           => ( /\ decoded.ok
                /\ decoded.val.length = from_be_bytes(SubSeq(buf, 1, 4)) )

C3_Witness ==
    /\ buf_src.kind = "length"
    /\ buf_src.field = << 128, 0, 0, 0 >>
    /\ decoded = Err(LengthTooLong([hi |-> 32768, lo |-> 0]))

\* crc is the checksum of type bytes ++ data bytes, length the data's size
ChunkInvariant(c) ==
    /\ c.crc = checksum_ieee(c.chunk_type.bytes \o c.chunk_data)
    /\ U32Value(c.length) = Len(c.chunk_data)

\* C9: every Chunk built by Chunk::new or returned by a successful decode
\* has crc = CRC-32/IEEE of its type bytes followed by its data bytes and
\* length = the number of its data bytes; for the chunk of the tests that is
\* length 42 and crc 2882656334.
C9_ChunkInvariant ==
    /\ chunk # NoResult => ChunkInvariant(chunk)
    /\ (decoded # NoResult /\ decoded.ok) => ChunkInvariant(decoded.val)
    /\ (buf = testing_chunk_bytes /\ decoded # NoResult) =>
           /\ decoded.ok
           /\ decoded.val.length = [hi |-> 0, lo |-> 42]
           /\ decoded.val.crc = [hi |-> 43985, lo |-> 55374]

C9_Witness ==
    /\ chunk # NoResult
    /\ Len(chunk.chunk_data) > 0
    /\ buf_src.kind = "trail"
    /\ decoded # NoResult
    /\ decoded.ok

(***************************************************************************)
(* Properties of ChunkType (SpecType).                                     *)
(***************************************************************************)
\* C10: for a 4-byte array of ASCII letters, construction from bytes succeeds
\* and bytes() returns the array; construction from the string of the same
\* four characters yields an equal ChunkType.
C10_TypeFromLetters ==
    /\ (type_from_bytes # NoResult /\ \A i \in 1..4 : IsLetter(type_bytes_in[i])) =>
           /\ type_from_bytes.ok
           /\ ChunkType_bytes(type_from_bytes.val) = type_bytes_in
    /\ ( /\ type_from_bytes # NoResult
         /\ type_from_str # NoResult
         /\ \A i \in 1..4 : IsLetter(type_bytes_in[i])
         /\ type_str_in = type_bytes_in ) =>
           /\ type_from_str.ok
           /\ ChunkType_eq(type_from_str.val, type_from_bytes.val)
           /\ ChunkType_bytes(type_from_str.val) = type_bytes_in

C10_Witness ==
    /\ type_from_bytes # NoResult
    /\ type_from_str # NoResult
    /\ type_bytes_in = << 65, 90, 97, 122 >>
    /\ type_str_in = type_bytes_in
    /\ type_from_str.ok

(***************************************************************************)
(* Properties of the Png container (SpecPng).                              *)
(***************************************************************************)
\* field-for-field equality of two chunks
SameChunk(a, b) ==
    /\ a.length = b.length
    /\ a.chunk_type.bytes = b.chunk_type.bytes
    /\ a.chunk_data = b.chunk_data
    /\ a.crc = b.crc

\* the number of bytes the first k chunks of a sequence serialize to
RECURSIVE EncodedLen(_, _)
EncodedLen(chunks, k) ==
    IF k = 0 THEN 0
    ELSE EncodedLen(chunks, k - 1) + 12 + Len(chunks[k].chunk_data)

\* C4: as_bytes of a Png of N chunks is the 8 signature bytes followed by
\* each chunk's as_bytes in stored order, and Png::try_from of those bytes
\* yields a Png with the same N chunks, field for field, in the same order.
C4_PngRoundTrip ==
    (file_src.kind = "as_bytes") =>
        /\ SubSeq(file, 1, 8) = << 137, 80, 78, 71, 13, 10, 26, 10 >>
        /\ Len(file) = 8 + EncodedLen(png.chunks, Len(png.chunks))
        /\ \A k \in 1..Len(png.chunks) :
               SubSeq(file, 9 + EncodedLen(png.chunks, k - 1),
                            8 + EncodedLen(png.chunks, k))
                   = Chunk_as_bytes(png.chunks[k])
        /\ parsed # NoResult =>
               /\ parsed.ok
               /\ Len(parsed.val.chunks) = Len(png.chunks)
               /\ \A k \in 1..Len(png.chunks) :
                      SameChunk(parsed.val.chunks[k], png.chunks[k])

C4_Witness ==
    /\ file_src.kind = "as_bytes"
    /\ parsed # NoResult
    /\ parsed.ok
    /\ Len(png.chunks) = 3
    /\ png.chunks[1].chunk_type # png.chunks[2].chunk_type

\* C5: Png::try_from fails with bad-signature exactly when fewer than 8
\* bytes are present or the first 8 differ from 89 50 4E 47 0D 0A 1A 0A;
\* otherwise it either consumes the whole buffer as chunks in order, or fails
\* with the error of the first chunk that does not decode (after the chunks
\* decoded before it) and returns no Png; a file with a damaged or cut-off
\* chunk record is never accepted.
C5_AllOrNothing ==
    (parsed # NoResult) =>
        /\ (Len(file) < 8 \/ SubSeq(file, 1, 8) # << 137, 80, 78, 71, 13, 10, 26, 10 >>)
               <=> (parsed = Err(BadSignature))
        /\ parsed.ok =>
               /\ Len(file) = 8 + EncodedLen(parsed.val.chunks, Len(parsed.val.chunks))
               /\ \A k \in 1..Len(parsed.val.chunks) :
                      SubSeq(file, 9 + EncodedLen(parsed.val.chunks, k - 1),
                                   8 + EncodedLen(parsed.val.chunks, k))
                          = Chunk_as_bytes(parsed.val.chunks[k])
        /\ (~parsed.ok /\ parsed # Err(BadSignature)) =>
               /\ DOMAIN parsed = {"ok", "err"}
               /\ \E k \in 0..Len(png.chunks) :
                      LET at == 8 + EncodedLen(png.chunks, k) IN
                      /\ at < Len(file)
                      /\ \A j \in 1..k :
                             Chunk_try_from(SubSeq(file, 9 + EncodedLen(png.chunks, j - 1),
                                                   Len(file)))
                                 = Ok(png.chunks[j])
                      /\ Chunk_try_from(SubSeq(file, at + 1, Len(file))) = parsed
        /\ file_src.kind = "flip_chunk" => ~parsed.ok
        /\ (file_src.kind = "truncate" /\ Len(file) >= 8) =>
               (parsed.ok <=> \E k \in 0..Len(png.chunks) :
                                  Len(file) = 8 + EncodedLen(png.chunks, k))

C5_Witness ==
    /\ parsed # NoResult
    /\ file_src.kind = "flip_chunk"
    /\ file_src.index > 8 + 13
    /\ ~parsed.ok
    /\ parsed.err.kind = "BadCRC"

\* the stored positions of `chunks` whose type has the bytes of t
PositionsOf(chunks, t) ==
    { i \in 1..Len(chunks) : chunks[i].chunk_type.bytes = t.bytes }

\* `chunks` without position i
Without(chunks, i) ==
    [ j \in 1..(Len(chunks) - 1) |-> IF j < i THEN chunks[j] ELSE chunks[j + 1] ]

\* C6: remove_chunk(t) on a Png holding a chunk of type t returns the first
\* chunk of type t and removes exactly it: the sequence is one shorter, the
\* other chunks keep their order, and later chunks of type t stay.
C6_RemoveFirst ==
    (call.op = "remove_chunk" /\ PositionsOf(call.before.chunks, call.arg) # {}) =>
        LET old == call.before.chunks
            first == CHOOSE i \in PositionsOf(old, call.arg) :
                         \A j \in PositionsOf(old, call.arg) : i <= j
        IN  /\ call.result = Ok(old[first])
            /\ Len(png.chunks) = Len(old) - 1
            /\ png.chunks = Without(old, first)
            /\ Cardinality(PositionsOf(png.chunks, call.arg))
                   = Cardinality(PositionsOf(old, call.arg)) - 1

C6_Witness ==
    /\ call.op = "remove_chunk"
    /\ Len(call.before.chunks) = 3
    /\ PositionsOf(call.before.chunks, call.arg) = {2, 3}
    /\ call.before.chunks[2] # call.before.chunks[3]
    /\ call.result.ok
    /\ png.chunks = << call.before.chunks[1], call.before.chunks[3] >>

\* C7: remove_chunk(t) on a Png holding no chunk of type t fails with the
\* chunk-type-not-found error and leaves the Png as it was: same chunks, same
\* order, same serialized bytes.
C7_RemoveAbsent ==
    (call.op = "remove_chunk" /\ PositionsOf(call.before.chunks, call.arg) = {}) =>
        /\ ~call.result.ok
        /\ call.result.err.kind = "ChunkTypeNotFound"
        /\ png.chunks = call.before.chunks
        /\ Png_as_bytes(png) = Png_as_bytes(call.before)

C7_Witness ==
    /\ call.op = "remove_chunk"
    /\ call.arg.bytes = << 114, 117, 83, 116 >>
    /\ Len(call.before.chunks) = 2
    /\ PositionsOf(call.before.chunks, call.arg) = {}
    /\ ~call.result.ok

\* what append_chunk and chunk_by_type do on their own: append_chunk adds the
\* chunk at the end whatever the Png holds already, chunk_by_type returns
\* none when no chunk has the type and otherwise the first chunk that has it
AppendAndLookup ==
    /\ call.op = "append_chunk" =>
           /\ Len(png.chunks) = Len(call.before.chunks) + 1
           /\ png.chunks[Len(png.chunks)] = call.arg
           /\ \A i \in 1..Len(call.before.chunks) :
                  png.chunks[i] = call.before.chunks[i]
    /\ call.op = "chunk_by_type" =>
           /\ png = call.before
           /\ (PositionsOf(png.chunks, call.arg) = {}) <=> (call.result = None)
           /\ PositionsOf(png.chunks, call.arg) # {} =>
                  /\ call.result.some
                  /\ \E i \in PositionsOf(png.chunks, call.arg) :
                         /\ call.result.val = png.chunks[i]
                         /\ \A j \in PositionsOf(png.chunks, call.arg) : i <= j

\* chunk_by_type(type of c) was called right after append_chunk(c)
LookupOfAppended ==
    /\ call.op = "chunk_by_type"
    /\ call.follows = "append_chunk"
    /\ Len(png.chunks) > 0
    /\ call.arg.bytes = png.chunks[Len(png.chunks)].chunk_type.bytes

\* C8 as stated: chunk_by_type(type of c) right after append_chunk(c) returns
\* the appended chunk.
C8_FindsAppended ==
    /\ AppendAndLookup
    /\ LookupOfAppended => call.result = Some(png.chunks[Len(png.chunks)])

\* C8 amended: chunk_by_type(type of c) right after append_chunk(c) returns a
\* chunk of c's type, the first one in stored order; it is the appended chunk
\* when no chunk stored before it has that type.
C8_FindsFirstOfType ==
    /\ AppendAndLookup
    /\ LookupOfAppended =>
           /\ call.result.some
           /\ call.result.val.chunk_type.bytes = call.arg.bytes
           /\ PositionsOf(png.chunks, call.arg) = {Len(png.chunks)} =>
                  call.result = Some(png.chunks[Len(png.chunks)])

C8_Witness ==
    /\ LookupOfAppended
    /\ Len(png.chunks) = 2
    /\ PositionsOf(png.chunks, call.arg) = {2}
    /\ call.result = Some(png.chunks[2])

\* the bytes of a string of characters below U+0800, written out
RECURSIVE Utf8Bytes(_)
Utf8Bytes(s) ==
    IF s = << >> THEN << >>
    ELSE (IF Head(s) < 128 THEN << Head(s) >>
          ELSE << 192 + (Head(s) \div 64), 128 + (Head(s) % 64) >>)
         \o Utf8Bytes(Tail(s))

\* the lowest-index byte of b that is not an ASCII letter
FirstNonLetter(b) ==
    b[CHOOSE i \in 1..Len(b) :
          /\ ~IsLetter(b[i])
          /\ \A j \in 1..(i - 1) : IsLetter(b[j])]

\* C11: from_bytes fails with the bad-byte error carrying the first byte
\* outside A-Z/a-z whenever there is one; from_str fails with BadLength
\* carrying the byte length whenever the string is not 4 bytes long, and
\* otherwise with the bad-byte error carrying the first offending byte;
\* every ChunkType constructed holds four letters.
C11_TypeFailures ==
    /\ (type_from_bytes # NoResult /\ \E i \in 1..4 : ~IsLetter(type_bytes_in[i])) =>
           type_from_bytes = Err(BadByte(FirstNonLetter(type_bytes_in)))
    /\ type_from_str # NoResult =>
           LET b == Utf8Bytes(type_str_in) IN
           /\ Len(b) # 4 => type_from_str = Err(BadLength(Len(b)))
           /\ (Len(b) = 4 /\ \E i \in 1..4 : ~IsLetter(b[i])) =>
                  type_from_str = Err(BadByte(FirstNonLetter(b)))
    /\ (type_from_bytes # NoResult /\ type_from_bytes.ok) =>
           /\ Len(type_from_bytes.val.bytes) = 4
           /\ \A i \in 1..4 : IsLetter(type_from_bytes.val.bytes[i])
    /\ (type_from_str # NoResult /\ type_from_str.ok) =>
           /\ Len(type_from_str.val.bytes) = 4
           /\ \A i \in 1..4 : IsLetter(type_from_str.val.bytes[i])

\* "A\u{e9}1": three characters, four bytes, the first offending byte is 0xC3
C11_Witness ==
    /\ type_str_in = << 65, 233, 49 >>
    /\ type_from_str = Err(BadByte(195))

\* bit 5 (counting from the least-significant bit 0) of a byte is clear
Bit5Clear(b) == (b \div 32) % 2 = 0

\* C12: is_critical iff byte 0 has bit 5 clear, is_public iff byte 1 has,
\* is_reserved_bit_valid and is_valid iff byte 2 has, is_safe_to_copy iff
\* byte 3 has bit 5 set; the bytes being letters, clear means uppercase and
\* set means lowercase; "RuSt" is critical, private, reserved-valid and safe
\* to copy, "Rust" is not valid, "ruSt" not critical, "RUSt" public, "RuST"
\* not safe to copy.
C12_FlagBits ==
    type_flags # NoResult =>
        LET b == type_flags.of.bytes IN
        /\ type_flags.is_critical <=> Bit5Clear(b[1])
        /\ type_flags.is_public <=> Bit5Clear(b[2])
        /\ type_flags.is_reserved_bit_valid <=> Bit5Clear(b[3])
        /\ type_flags.is_valid <=> Bit5Clear(b[3])
        /\ type_flags.is_safe_to_copy <=> ~Bit5Clear(b[4])
        /\ type_flags.is_critical <=> b[1] \in 65..90
        /\ type_flags.is_public <=> b[2] \in 65..90
        /\ type_flags.is_reserved_bit_valid <=> b[3] \in 65..90
        /\ type_flags.is_safe_to_copy <=> b[4] \in 97..122
        /\ b = << 82, 117, 83, 116 >> =>
               /\ type_flags.is_critical /\ ~type_flags.is_public
               /\ type_flags.is_reserved_bit_valid /\ type_flags.is_valid
               /\ type_flags.is_safe_to_copy
        /\ b = << 82, 117, 115, 116 >> =>
               ~type_flags.is_reserved_bit_valid /\ ~type_flags.is_valid
        /\ b = << 114, 117, 83, 116 >> => ~type_flags.is_critical
        /\ b = << 82, 85, 83, 116 >> => type_flags.is_public
        /\ b = << 82, 117, 83, 84 >> => ~type_flags.is_safe_to_copy

C12_Witness ==
    /\ type_flags # NoResult
    /\ type_flags.of.bytes = << 82, 117, 115, 116 >>
    /\ type_flags.is_critical
    /\ ~type_flags.is_public
    /\ ~type_flags.is_valid
    /\ type_flags.is_safe_to_copy

(***************************************************************************)
(* Chunk::try_from and the bytes after a chunk (SpecChunk).                *)
(***************************************************************************)
\* C13: when the buffer starts with a serialized chunk of declared length L,
\* whatever bytes follow it, decode succeeds with the chunk of the first
\* 12 + L bytes: the bytes that follow are neither rejected nor part of the
\* result, whose as_bytes is exactly that prefix.
C13_DecodeReadsPrefix ==
    (buf_src.kind = "trail" /\ decoded # NoResult) =>
        LET n == 12 + Len(chunk.chunk_data) IN
        /\ Len(buf) = n + Len(buf_src.trail)
        /\ SubSeq(buf, n + 1, Len(buf)) = buf_src.trail
        /\ SubSeq(buf, 1, 4) = << 0, 0, 0, Len(chunk.chunk_data) >>
        /\ decoded.ok
        /\ SameChunk(decoded.val, chunk)
        /\ Len(decoded.val.chunk_data) = Len(chunk.chunk_data)
        /\ Chunk_as_bytes(decoded.val) = SubSeq(buf, 1, n)

C13_Witness ==
    /\ buf_src.kind = "trail"
    /\ buf_src.trail = << 255, 0 >>
    /\ decoded # NoResult
    /\ decoded.ok
    /\ Len(decoded.val.chunk_data) = 2
    /\ Chunk_as_bytes(decoded.val) = SubSeq(buf, 1, 14)

(***************************************************************************)
(* The subcommands and the files (SpecCli).                                *)
(***************************************************************************)
\* the path a run reads
ReadPath(sub) ==
    IF sub.cmd = "Encode" THEN sub.input_file_path ELSE sub.file_path

\* the file a run reads is there and is a Png
InputIsPng(before, sub) ==
    /\ before[ReadPath(sub)].exists
    /\ Png_try_from(before[ReadPath(sub)].bytes).ok

\* the types of the chunks of the Png file at `path`
TypesOnDisk(before, path) ==
    LET chunks == Png_try_from(before[path].bytes).val.chunks IN
    { chunks[i].chunk_type : i \in 1..Len(chunks) }

\* C14: a subcommand writes a file only after the core has succeeded.
\* Decode and Print leave every file as it was.  Encode and Remove whose
\* input cannot be read or is not a Png leave every file as it was, print
\* nothing and return the error.  Remove of a chunk type the Png does not
\* hold leaves every file as it was, prints one "Error: ..." line and returns
\* Ok.  Encode that returns Ok has written, to the output path or, without
\* one, to the input path, the bytes of the input followed by the new chunk,
\* and has left every other file as it was.
C14_WritesAfterSuccess ==
    last_run # NoResult =>
        LET sub == last_run.sub
            before == last_run.before
        IN
        /\ sub.cmd \in { "Decode", "Print" } => fs = before
        /\ (sub.cmd \in { "Encode", "Remove" } /\ ~InputIsPng(before, sub)) =>
               /\ fs = before
               /\ ~last_run.ret.ok
               /\ last_run.stdout = << >>
               /\ last_run.ret.err =
                      IF before[ReadPath(sub)].exists
                      THEN Png_try_from(before[ReadPath(sub)].bytes).err
                      ELSE IoNotFound(ReadPath(sub))
        /\ (sub.cmd = "Remove" /\ InputIsPng(before, sub)
                /\ sub.chunk_type \notin TypesOnDisk(before, sub.file_path)) =>
               /\ fs = before
               /\ last_run.ret = Ok(<< >>)
               /\ Len(last_run.stdout) = 1
               /\ last_run.stdout[1].fmt = "Error: {}"
        /\ (sub.cmd = "Encode" /\ last_run.ret.ok) =>
               LET output == IF sub.output_file_path = None
                             THEN sub.input_file_path
                             ELSE sub.output_file_path.val
               IN
               /\ InputIsPng(before, sub)
               /\ fs[output].exists
               /\ fs[output].bytes =
                      before[sub.input_file_path].bytes
                          \o Chunk_as_bytes(Chunk_new(sub.chunk_type,
                                                      str_as_bytes(sub.message)))
               /\ \A p \in CliPaths \ { output } : fs[p] = before[p]
        /\ fs # before =>
               /\ sub.cmd \in { "Encode", "Remove" }
               /\ last_run.ret.ok
               /\ InputIsPng(before, sub)

\* Encode of a file that is not a Png, with an output path given: nothing is
\* written and the error is returned
C14_Witness ==
    /\ last_run # NoResult
    /\ last_run.sub.cmd = "Encode"
    /\ last_run.sub.output_file_path = Some(Path(".", "b.png"))
    /\ last_run.before[Path(".", "a.png")].exists
    /\ last_run.sub.input_file_path = Path(".", "a.png")
    /\ ~last_run.ret.ok
    /\ last_run.ret.err.kind = "BadCRC"
    /\ fs = last_run.before
    /\ ~fs[Path(".", "b.png")].exists

=============================================================================
